---- MODULE Spec2Model ----
(***************************************************************************)
(* FetchBodyUtility of happy-dom: getBodyStream (payload -> stream plus    *)
(* content type and length) and consumeBodyStream (stream plus size limit  *)
(* -> Buffer), together with the part of Node's stream.Readable, Buffer    *)
(* and URLSearchParams behaviour the two functions rely on.                *)
(*                                                                         *)
(* A byte is a number in 0..255, a Buffer a sequence of bytes, a string a  *)
(* sequence of Unicode code points.                                        *)
(***************************************************************************)
EXTENDS Integers, Sequences, FiniteSets, TLC

VARIABLES
    streams,    \* the stream objects: [StreamIds -> stream record]
    calls,      \* the consumeBodyStream invocations: [CallIds -> call record]
    payload,    \* the body value handed to getBodyStream
    descs,      \* what getBodyStream returned: [DescIds -> descriptor record]
    owner       \* the chunks the owner of a live source stream read from it itself

vars == <<streams, calls, payload, descs, owner>>

----------------------------------------------------------------------------
(* Bounds of the model.                                                    *)

\* The most chunks a transport stream produces.
MaxChunks == 2
\* The most chunk.length units all chunks of a transport stream hold together.
MaxTotal == 3
\* The largest size limit passed to consumeBodyStream.
MaxSize == 3
\* The longest Buffer / ArrayBuffer payload.
MaxBufLen == 2
\* The longest string payload.
MaxStrLen == 2
\* The longest value of a URLSearchParams payload.
MaxValueLen == 1
\* The most name/value pairs of a URLSearchParams payload.
MaxParams == 1

\* The byte values raw buffers are drawn from: "A" and 0xE9 (not valid UTF-8 alone).
InBytes == {65, 233}
\* The code points strings are drawn from: "A" and "e-acute" (two bytes in UTF-8).
Chars == {65, 233}

StreamIds == {1, 2, 3}
CallIds == {1, 2}
DescIds == {1, 2}

\* consumeBodyStream's body argument when it is null, or an object that is no stream.
Null == 0
NotAStream == -1

SeqsUpTo(S, n) == UNION {[1..k -> S] : k \in 0..n}

----------------------------------------------------------------------------
(* Strings and Buffers.                                                    *)

RECURSIVE Concat(_)
\* The elements of a sequence of sequences, joined in order.
Concat(ss) == IF ss = <<>> THEN <<>> ELSE Head(ss) \o Concat(Tail(ss))

RECURSIVE StringLength(_)
\* String.prototype.length: the number of UTF-16 code units.
StringLength(s) ==
    IF s = <<>> THEN 0
    ELSE (IF Head(s) > 65535 THEN 2 ELSE 1) + StringLength(Tail(s))

\* The UTF-8 encoding of one code point (a lone surrogate encodes as U+FFFD).
Utf8(cp) ==
    IF cp < 128 THEN <<cp>>
    ELSE IF cp < 2048 THEN <<192 + (cp \div 64), 128 + (cp % 64)>>
    ELSE IF cp \in 55296..57343 THEN <<239, 191, 189>>
    ELSE IF cp < 65536
         THEN <<224 + (cp \div 4096), 128 + ((cp \div 64) % 64), 128 + (cp % 64)>>
    ELSE <<240 + (cp \div 262144), 128 + ((cp \div 4096) % 64),
           128 + ((cp \div 64) % 64), 128 + (cp % 64)>>

RECURSIVE BufferFromString(_)
\* Buffer.from(string): the string's UTF-8 bytes.
BufferFromString(s) ==
    IF s = <<>> THEN <<>> ELSE Utf8(Head(s)) \o BufferFromString(Tail(s))

IsCont(b) == b \in 128..191
\* The second byte a three-byte lead admits (no overlong form, no surrogate).
IsSecondOf3(h, b) ==
    /\ IsCont(b)
    /\ (h = 224 => b >= 160)
    /\ (h = 237 => b <= 159)

RECURSIVE BufferToString(_)
\* Buffer.prototype.toString(): UTF-8 decoding, each maximal invalid part
\* replaced by U+FFFD. Sequences of up to three bytes are decoded; a four-byte
\* lead is replaced.
BufferToString(b) ==
    IF b = <<>> THEN <<>>
    ELSE LET h == b[1]
             n == Len(b)
             rest(k) == SubSeq(b, k + 1, n)
         IN  IF h < 128 THEN <<h>> \o BufferToString(rest(1))
             ELSE IF h \in 194..223 /\ n >= 2 /\ IsCont(b[2])
                  THEN <<(h - 192) * 64 + (b[2] - 128)>> \o BufferToString(rest(2))
             ELSE IF h \in 224..239 /\ n >= 3 /\ IsSecondOf3(h, b[2]) /\ IsCont(b[3])
                  THEN <<(h - 224) * 4096 + (b[2] - 128) * 64 + (b[3] - 128)>>
                       \o BufferToString(rest(3))
             ELSE IF h \in 224..239 /\ n >= 2 /\ IsSecondOf3(h, b[2])
                  THEN <<65533>> \o BufferToString(rest(2))
             ELSE <<65533>> \o BufferToString(rest(1))

----------------------------------------------------------------------------
(* Chunks: what a stream yields. A chunk is a Buffer or, for a stream in    *)
(* object mode or with an encoding set, a string.                          *)

BufferChunk(b) == [str |-> FALSE, data |-> b]
StringChunk(s) == [str |-> TRUE, data |-> s]

\* chunk.length: bytes of a Buffer, UTF-16 code units of a string.
ChunkLength(chunk) ==
    IF chunk.str THEN StringLength(chunk.data) ELSE Len(chunk.data)

\* The bytes a chunk stands for.
ChunkBytes(chunk) ==
    IF chunk.str THEN BufferFromString(chunk.data) ELSE chunk.data

RECURSIVE TotalLength(_)
TotalLength(cs) ==
    IF cs = <<>> THEN 0 ELSE ChunkLength(Head(cs)) + TotalLength(Tail(cs))

RECURSIVE TotalBytes(_)
TotalBytes(cs) ==
    IF cs = <<>> THEN 0 ELSE Len(ChunkBytes(Head(cs))) + TotalBytes(Tail(cs))

RECURSIVE AllBytes(_)
\* The bytes of all chunks, in order.
AllBytes(cs) ==
    IF cs = <<>> THEN <<>> ELSE ChunkBytes(Head(cs)) \o AllBytes(Tail(cs))

Chunks ==
    {BufferChunk(b) : b \in SeqsUpTo(InBytes, MaxTotal)}
        \cup {StringChunk(s) : s \in SeqsUpTo(Chars, MaxTotal)}

\* The chunk sequences a transport stream may produce.
ChunkSeqs == {cs \in SeqsUpTo(Chunks, MaxChunks) : TotalLength(cs) <= MaxTotal}

----------------------------------------------------------------------------
(* Stream objects (Node's stream.Readable, as far as the two functions     *)
(* observe it).                                                            *)
(*   kind           "none" (no such object yet), "transport" (delivered by *)
(*                  the transport layer or owned by the caller), "from"    *)
(*                  (Readable.from) or "passthrough" (Stream.PassThrough)  *)
(*   pending        the chunks the stream has yet to yield, oldest first   *)
(*   delivered      the chunks it has yielded to whoever read it           *)
(*   ended          _readableState.ended: the producer signalled EOF       *)
(*   readableEnded  readableEnded: the 'end' event was emitted             *)
(*   destroyed      the stream was destroyed or closed                     *)
(*   errored        the stream failed: its async iterator throws           *)
(*   hasDestroy     typeof stream.destroy === 'function'                   *)
(*   destroyArg     the error destroy() was called with by the collector   *)
(*   dests          the streams this one is piped into                     *)

NoError == [kind |-> "none", limit |-> 0, cause |-> "", by |-> 0]

NoStream ==
    [kind |-> "none", pending |-> <<>>, delivered |-> <<>>, ended |-> FALSE,
     readableEnded |-> FALSE, destroyed |-> FALSE, errored |-> FALSE,
     hasDestroy |-> FALSE, destroyArg |-> NoError, dests |-> {}]

NewStream(kind, chunks, hasDestroy) ==
    [NoStream EXCEPT !.kind = kind, !.pending = chunks, !.hasDestroy = hasDestroy]

\* The stream after its reader obtained the next chunk.
AfterRead(stream) ==
    [stream EXCEPT !.pending = Tail(stream.pending),
                   !.delivered = Append(stream.delivered, Head(stream.pending))]

\* The async iterator has a chunk to yield.
CanYield(stream) == stream.pending # <<>> /\ ~stream.destroyed

\* The async iterator reports completion: after 'end', or (silently) after the
\* stream was closed before its end.
IterationOver(stream) == (stream.readableEnded \/ stream.destroyed) /\ ~stream.errored

\* The async iterator throws: the stream failed.
IterationThrows(stream) == stream.errored

----------------------------------------------------------------------------
(* consumeBodyStream.                                                      *)
(*   pc       "Idle", "Reading", then the outcome: "Returned",            *)
(*            "LimitExceeded", "PrematureClose", "BufferConstructionError" *)
(*            or "StreamError" (the stream's own error, passed on)         *)
(*   body     the stream argument: a stream id, Null or NotAStream         *)
(*   size     the size limit, 0 for none                                   *)
(*   chunks   the local chunks array;  bytes: the local running total      *)
(*   buffer   the Buffer returned (when pc = "Returned")                   *)
(*   error    the exception thrown (when pc is an error outcome)           *)
(*   events   "destroy" and "throw", in the order the call performed them  *)
(*   awaits   how often the call suspended on its stream                   *)

NoCall ==
    [pc |-> "Idle", body |-> Null, size |-> 0, chunks |-> <<>>, bytes |-> 0,
     buffer |-> <<>>, error |-> NoError, events |-> <<>>, awaits |-> 0]

Outcomes == {"Returned", "LimitExceeded", "PrematureClose", "BufferConstructionError"}

\* The function catches nothing the loop throws: the stream's error is one more
\* way for a call to end.
AllOutcomes == Outcomes \cup {"StreamError"}

\* The error a failed stream's iterator throws: not made by call c, only
\* passed on by it.
StreamFailure == [kind |-> "stream", limit |-> 0, cause |-> "", by |-> 0]

\* Line 104 with the throw of line 109 lost: the loop goes on after the limit
\* was exceeded.
Looping_AfterLimit(call) == call.pc \in {"Reading", "LimitExceeded"}

\* Lines 104-114: call is in its loop (a throw or the return ends it for good).
Looping(call) == call.pc = "Reading"

\* A running total kept in one place for all invocations.
BytesSoFar_Shared(c) == calls[1].bytes + calls[2].bytes

\* Line 102: the running total is a local of invocation c.
BytesSoFar(c) == calls[c].bytes

\* Line 92 with the null test left out.
IsAbsentBody_NullUnchecked(body) == body = NotAStream

\* Line 92: the body is null or no stream at all.
IsAbsentBody(body) == body = Null \/ body = NotAStream

\* Lines 96-99: the error object call c creates for its limit.
SizeError(c, size) == [kind |-> "size", limit |-> size, cause |-> "", by |-> c]

\* Lines 120-123.
PrematureCloseError(c) == [kind |-> "premature", limit |-> 0, cause |-> "", by |-> c]

\* Lines 133-136 with the message of the error caught left out.
BufferError_WithoutMessage(c, message) ==
    [kind |-> "buffer", limit |-> 0, cause |-> "", by |-> c]

\* Lines 133-136: carries the message of the error caught.
BufferError(c, message) == [kind |-> "buffer", limit |-> 0, cause |-> message, by |-> c]

\* Line 105 without the test that a limit is set: size 0 limits to nothing.
LimitExceeded_ZeroIsALimit(size, bytes, chunk) == bytes + ChunkLength(chunk) > size

\* Line 105 testing the total before the chunk is counted: the chunk that goes
\* over the limit is taken, the next one fails.
LimitExceeded_BeforeAdd(size, bytes, chunk) == size # 0 /\ bytes > size

\* Line 105 testing the chunk alone against the limit, not the running total.
LimitExceeded_ChunkAlone(size, bytes, chunk) == size # 0 /\ ChunkLength(chunk) > size

\* Line 105 with >= for >: a total that is exactly the limit fails.
LimitExceeded_Inclusive(size, bytes, chunk) ==
    size # 0 /\ bytes + ChunkLength(chunk) >= size

\* Line 105: the chunk would take the running total over a limit that is set.
LimitExceeded(size, bytes, chunk) == size # 0 /\ bytes + ChunkLength(chunk) > size

\* Lines 106-108 with destroy() called without the error.
Destroy_WithoutError(stream, err) ==
    IF stream.hasDestroy
    THEN [stream EXCEPT !.destroyed = TRUE, !.destroyArg = NoError]
    ELSE stream

\* Lines 106-108: destroy(err) is called when the stream has it.
Destroy(stream, err) ==
    IF stream.hasDestroy
    THEN [stream EXCEPT !.destroyed = TRUE, !.destroyArg = err]
    ELSE stream

\* Lines 116-119 with only _readableState.ended looked at.
NotEnded_StateOnly(stream) == stream.ended = FALSE

\* Lines 116-119: one of the two completion indicators says "not ended".
NotEnded(stream) == stream.readableEnded = FALSE \/ stream.ended = FALSE

\* Array.prototype.join(''): every element converted to a string.
Join(chunks) ==
    Concat([i \in 1..Len(chunks) |->
               IF chunks[i].str THEN chunks[i].data ELSE BufferToString(chunks[i].data)])

\* Buffer.concat(list, totalLength): the elements' bytes, cut or zero-filled to
\* totalLength.
BufferConcat(chunks, totalLength) ==
    LET all == Concat([i \in 1..Len(chunks) |-> chunks[i].data])
    IN  [i \in 1..totalLength |-> IF i <= Len(all) THEN all[i] ELSE 0]

\* Lines 126-137: the Buffer built from the chunks, or the error caught
\* (Buffer.concat throws a TypeError for an element that is no Uint8Array).
ChunksToBuffer(chunks, bytes) ==
    IF chunks # <<>> /\ chunks[1].str
    THEN [ok |-> TRUE, data |-> BufferFromString(Join(chunks)), message |-> ""]
    ELSE IF \E i \in 1..Len(chunks) : chunks[i].str
    THEN [ok |-> FALSE, data |-> <<>>, message |-> "ERR_INVALID_ARG_TYPE"]
    ELSE [ok |-> TRUE, data |-> BufferConcat(chunks, bytes), message |-> ""]

\* The transport layer (or a caller) creates stream s.
Transport(s) ==
    /\ streams[s].kind = "none"
    /\ \E cs \in ChunkSeqs, d \in BOOLEAN :
           streams' = [streams EXCEPT ![s] = NewStream("transport", cs, d)]
    /\ UNCHANGED <<calls, payload, descs, owner>>

\* The producer of transport stream s signals EOF (push(null)).
PushEof(s) ==
    /\ streams[s].kind = "transport"
    /\ ~streams[s].ended
    /\ ~streams[s].destroyed
    /\ streams' = [streams EXCEPT ![s].ended = TRUE]
    /\ UNCHANGED <<calls, payload, descs, owner>>

\* Stream s, drained after EOF, emits 'end'; a pipe ends its destinations.
EmitEnd(s) ==
    /\ streams[s].kind # "none"
    /\ streams[s].ended
    /\ streams[s].pending = <<>>
    /\ ~streams[s].readableEnded
    /\ ~streams[s].destroyed
    /\ streams' = [t \in StreamIds |->
                     IF t = s THEN [streams[t] EXCEPT !.readableEnded = TRUE]
                     ELSE IF t \in streams[s].dests
                          THEN [streams[t] EXCEPT !.ended = TRUE]
                     ELSE streams[t]]
    /\ UNCHANGED <<calls, payload, descs, owner>>

\* The other side closes transport stream s before its 'end' (no error).
Close(s) ==
    /\ streams[s].kind = "transport"
    /\ ~streams[s].readableEnded
    /\ ~streams[s].destroyed
    /\ streams' = [streams EXCEPT ![s].destroyed = TRUE]
    /\ UNCHANGED <<calls, payload, descs, owner>>

\* Transport stream s fails before its 'end': it emits 'error', or the runtime
\* turns its early close into an error; either way its iterator throws.
Fail(s) ==
    /\ streams[s].kind = "transport"
    /\ ~streams[s].readableEnded
    /\ ~streams[s].destroyed
    /\ streams' = [streams EXCEPT ![s].destroyed = TRUE, ![s].errored = TRUE]
    /\ UNCHANGED <<calls, payload, descs, owner>>

\* Lines 91-102: consumeBodyStream(body, size) is called. An absent body
\* returns Buffer.alloc(0) at once; otherwise the loop starts. A stream has one
\* consumer: no call is started on a stream another call was given.
ConsumeBodyStream(c, body, size) ==
    /\ calls[c].pc = "Idle"
    /\ body \in StreamIds => /\ streams[body].kind # "none"
                             /\ \A o \in CallIds : calls[o].body # body
    /\ calls' = [calls EXCEPT ![c] =
                    IF IsAbsentBody(body)
                    THEN [NoCall EXCEPT !.pc = "Returned", !.body = body, !.size = size]
                    ELSE [NoCall EXCEPT !.pc = "Reading", !.body = body, !.size = size]]
    /\ UNCHANGED <<streams, payload, descs, owner>>

\* Lines 104-114: one round of the loop with a chunk. destroyArg and the events
\* record what the function itself does; the clean-up the runtime adds when a
\* for await is left by a throw changes nothing the function looks at afterwards.
ReadChunk(c) ==
    LET call == calls[c]
        s == call.body
        chunk == Head(streams[s].pending)
        read == AfterRead(streams[s])
        sizeError == SizeError(c, call.size)
    IN  /\ Looping(call)
        /\ CanYield(streams[s])
        /\ IF LimitExceeded(call.size, BytesSoFar(c), chunk)
           THEN /\ streams' = [streams EXCEPT ![s] = Destroy(read, sizeError)]
                /\ calls' = [calls EXCEPT ![c] =
                       [call EXCEPT !.pc = "LimitExceeded",
                                    !.error = sizeError,
                                    !.awaits = @ + 1,
                                    !.events = IF read.hasDestroy
                                               THEN <<"destroy", "throw">>
                                               ELSE <<"throw">>]]
           ELSE /\ streams' = [streams EXCEPT ![s] = read]
                /\ calls' = [calls EXCEPT ![c] =
                       [call EXCEPT !.bytes = @ + ChunkLength(chunk),
                                    !.chunks = Append(@, chunk),
                                    !.awaits = @ + 1]]
        /\ UNCHANGED <<payload, descs, owner>>

\* Lines 116-137: the loop is over; the completion check, then the Buffer.
LoopDone(c) ==
    LET call == calls[c]
        s == call.body
        built == ChunksToBuffer(call.chunks, call.bytes)
    IN  /\ Looping(call)
        /\ ~CanYield(streams[s])
        /\ IterationOver(streams[s])
        /\ calls' = [calls EXCEPT ![c] =
               IF NotEnded(streams[s])
               THEN [call EXCEPT !.pc = "PrematureClose",
                                 !.error = PrematureCloseError(c),
                                 !.awaits = @ + 1,
                                 !.events = <<"throw">>]
               ELSE IF ~built.ok
               THEN [call EXCEPT !.pc = "BufferConstructionError",
                                 !.error = BufferError(c, built.message),
                                 !.awaits = @ + 1,
                                 !.events = <<"throw">>]
               ELSE [call EXCEPT !.pc = "Returned",
                                 !.buffer = built.data,
                                 !.awaits = @ + 1]]
        /\ UNCHANGED <<streams, payload, descs, owner>>

\* Line 104: the iterator throws and nothing catches it; the call is rejected
\* with the stream's error.
LoopThrows(c) ==
    LET call == calls[c]
        s == call.body
    IN  /\ Looping(call)
        /\ IterationThrows(streams[s])
        /\ calls' = [calls EXCEPT ![c] =
               [call EXCEPT !.pc = "StreamError",
                            !.error = StreamFailure,
                            !.awaits = @ + 1,
                            !.events = <<"throw">>]]
        /\ UNCHANGED <<streams, payload, descs, owner>>

----------------------------------------------------------------------------
(* getBodyStream.                                                          *)
(* A payload is a record                                                   *)
(*   type    "null", "undefined", "URLSearchParams", "Blob", "Buffer",     *)
(*           "ArrayBuffer", "View" (a typed array or DataView), "Stream",  *)
(*           or "other" (anything else)                                    *)
(*   data    Blob: _buffer; Buffer, ArrayBuffer: the bytes; View: the      *)
(*           bytes of the underlying ArrayBuffer; other: the string        *)
(*           String(body) gives                                            *)
(*   params  URLSearchParams: the <<name, value>> pairs                    *)
(*   chunks  Stream: the chunks the source stream holds                    *)
(*   offset, length   View: byteOffset and byteLength                      *)
(*   mime    Blob: type, <<>> for none                                     *)
(* A descriptor is [made, stream, contentType, contentLength]; a null      *)
(* stream is Null, a null contentType <<>>, a null contentLength NullLength.*)

NullLength == -1
NullType == <<>>
\* The stream object that holds a live-stream payload.
SourceId == 3

NoPayload == [type |-> "none", data |-> <<>>, params |-> <<>>, chunks |-> <<>>,
              offset |-> 0, length |-> 0, mime |-> <<>>]
NoDesc == [made |-> FALSE, stream |-> Null, contentType |-> NullType,
           contentLength |-> NullLength]

Payload(type, data) == [NoPayload EXCEPT !.type = type, !.data = data]

\* The digit of a percent-encoded byte, as a code point ("0".."9", "A".."F").
HexDigit(d) == IF d < 10 THEN 48 + d ELSE 55 + d

\* The application/x-www-form-urlencoded serialisation of one byte.
UrlEncodeByte(b) ==
    IF b = 32 THEN <<43>>
    ELSE IF b \in (48..57) \cup (65..90) \cup (97..122) \cup {42, 45, 46, 95} THEN <<b>>
    ELSE <<37, HexDigit(b \div 16), HexDigit(b % 16)>>

\* One name or value, serialised: its UTF-8 bytes, each percent-encoded as needed.
UrlEncode(s) ==
    LET bytes == BufferFromString(s)
    IN  Concat([i \in 1..Len(bytes) |-> UrlEncodeByte(bytes[i])])

RECURSIVE UrlSearchParamsToString(_)
\* URLSearchParams.prototype.toString(): name=value pairs joined by "&".
UrlSearchParamsToString(params) ==
    IF params = <<>> THEN <<>>
    ELSE UrlEncode(params[1][1]) \o <<61>> \o UrlEncode(params[1][2])
         \o (IF Len(params) > 1
             THEN <<38>> \o UrlSearchParamsToString(Tail(params))
             ELSE <<>>)

\* Blob.size: the length of the blob's buffer.
BlobSize(blob) == Len(blob.data)

\* Line 42 with the type left out of the descriptor.
BlobContentType_Dropped(blob) == NullType

\* Line 42: contentType is body.type, whatever the blob holds there.
BlobContentType(blob) == blob.mime

\* MultipartFormDataParser.formDataToStream(window, formData): the multipart
\* encoding as a stream, its content type (with the boundary) and its length.
\* The payload carries what the parser makes of it.
FormDataToStream(form) ==
    [some |-> TRUE, bytes |-> form.data,
     contentType |-> form.mime, contentLength |-> form.length]

\* String(body) of a value that is none of the recognised types; for a Buffer
\* it is Buffer.prototype.toString().
StringOf(p) == IF p.type = "Buffer" THEN BufferToString(p.data) ELSE p.data

\* Lines 30-72 without the Buffer branches: a Buffer falls through to String(body).
Variant_BufferUnrecognised(p) == IF p.type = "Buffer" THEN "other" ELSE p.type

\* Lines 30-72 with a last branch that takes whatever is not recognised for
\* no body at all.
Variant_OtherIsAbsent(p) == IF p.type = "other" THEN "null" ELSE p.type

\* Lines 30-72: the branch of the if-chain a payload takes.
Variant(p) == p.type

\* Buffer.from(arrayBuffer) without the view's offset and length: the whole
\* underlying buffer.
BufferFromWindow_WholeBuffer(bytes, offset, length) == bytes

\* Buffer.from(arrayBuffer, byteOffset, length): the bytes of that window.
BufferFromWindow(bytes, offset, length) == SubSeq(bytes, offset + 1, offset + length)

\* Lines 30-77, without the stream objects: the bytes the returned stream is made
\* from (bytes), whether there is a stream at all (some), and the metadata.
Described(p) ==
    LET v == Variant(p)
        plain(bytes, len) == [some |-> TRUE, bytes |-> bytes,
                              contentType |-> NullType, contentLength |-> len]
    IN  IF v \in {"null", "undefined"}
        THEN [some |-> FALSE, bytes |-> <<>>,
              contentType |-> NullType, contentLength |-> NullLength]
        ELSE IF v = "URLSearchParams"
        THEN LET bodyAsString == UrlSearchParamsToString(p.params)
             IN  plain(BufferFromString(bodyAsString), StringLength(bodyAsString))
        ELSE IF v = "Blob"
        THEN [some |-> TRUE, bytes |-> p.data,
              contentType |-> BlobContentType(p), contentLength |-> BlobSize(p)]
        ELSE IF v = "Buffer" THEN plain(p.data, Len(p.data))
        ELSE IF v = "ArrayBuffer" THEN plain(p.data, Len(p.data))
        ELSE IF v = "View"
        THEN plain(BufferFromWindow(p.data, p.offset, p.length), p.length)
        ELSE IF v = "FormData" THEN FormDataToStream(p)
        ELSE LET bodyAsString == StringOf(p)
             IN  plain(BufferFromString(bodyAsString), StringLength(bodyAsString))

\* Stream.Readable.from(buffer): a new stream that yields the Buffer as one chunk.
\* Its read() pushes the chunk and the EOF together, so the EOF is in by the time
\* the chunk can be observed.
ReadableFrom(bytes) ==
    [NewStream("from", <<BufferChunk(bytes)>>, TRUE) EXCEPT !.ended = TRUE]

\* One stream object kept and handed out by every call.
StreamFor_Shared(d) == 1

\* The stream object call d of getBodyStream creates: a new one each time.
StreamFor(d) == d

\* Lines 26-78: getBodyStream(window, payload); d names the call and what it
\* returned. For a stream payload the source is piped into a new PassThrough.
GetBodyStream(d) ==
    LET s == StreamFor(d)
        r == Described(payload)
    IN  /\ ~descs[d].made
        /\ payload.type # "none"
        /\ IF Variant(payload) = "Stream"
           THEN /\ streams' = [streams EXCEPT
                       ![s] = NewStream("passthrough", <<>>, TRUE),
                       ![SourceId].dests = @ \cup {s}]
                /\ descs' = [descs EXCEPT ![d] =
                       [made |-> TRUE, stream |-> s, contentType |-> NullType,
                        contentLength |-> NullLength]]
           ELSE /\ streams' = IF r.some
                              THEN [streams EXCEPT ![s] = ReadableFrom(r.bytes)]
                              ELSE streams
                /\ descs' = [descs EXCEPT ![d] =
                       [made |-> TRUE, stream |-> IF r.some THEN s ELSE Null,
                        contentType |-> r.contentType,
                        contentLength |-> r.contentLength]]
        /\ UNCHANGED <<calls, payload, owner>>

\* Line 62, body.pipe(stream), at work: the source's next chunk is written to
\* every stream it is piped into. (The chunks of the model stay far below the
\* destinations' highWaterMark, so the pipe never pauses.)
Flow(s) ==
    /\ streams[s].dests # {}
    /\ CanYield(streams[s])
    /\ streams' = [t \in StreamIds |->
                     IF t = s THEN AfterRead(streams[s])
                     ELSE IF t \in streams[s].dests
                          THEN [streams[t] EXCEPT
                                   !.pending = Append(@, Head(streams[s].pending))]
                     ELSE streams[t]]
    /\ UNCHANGED <<calls, payload, descs, owner>>

\* The owner of the source stream reads its next chunk itself.
OwnerRead(s) ==
    /\ streams[s].kind = "transport"
    /\ CanYield(streams[s])
    /\ streams' = [streams EXCEPT ![s] = AfterRead(@)]
    /\ owner' = Append(owner, Head(streams[s].pending))
    /\ UNCHANGED <<calls, payload, descs>>

\* Whoever was handed the stream of a descriptor (the transport) reads its next
\* chunk.
Read(s) ==
    /\ streams[s].kind \in {"from", "passthrough"}
    /\ \A c \in CallIds : calls[c].body # s
    /\ CanYield(streams[s])
    /\ streams' = [streams EXCEPT ![s] = AfterRead(@)]
    /\ UNCHANGED <<calls, payload, descs, owner>>

----------------------------------------------------------------------------
(* The collector on a stream delivered by the transport layer.             *)

Init ==
    /\ streams = [s \in StreamIds |-> NoStream]
    /\ calls = [c \in CallIds |-> NoCall]
    /\ payload = NoPayload
    /\ descs = [d \in DescIds |-> NoDesc]
    /\ owner = <<>>

Bodies == {Null, NotAStream, 1}

Next ==
    \/ Transport(1)
    \/ PushEof(1)
    \/ EmitEnd(1)
    \/ Close(1)
    \/ Fail(1)
    \/ \E body \in Bodies, size \in 0..MaxSize : ConsumeBodyStream(1, body, size)
    \/ ReadChunk(1)
    \/ LoopDone(1)
    \/ LoopThrows(1)

Spec == Init /\ [][Next]_vars

\* The chunk sequences of the stream below: Buffers and strings of one or two
\* elements.
LiveChunks ==
    {BufferChunk(<<65>>), BufferChunk(<<65, 233>>), StringChunk(<<233>>)}
LiveChunkSeqs == {cs \in SeqsUpTo(LiveChunks, MaxChunks) : TotalLength(cs) <= MaxTotal}

\* The same, for a stream that does come to an end and an event loop that runs
\* what is ready: the producer gets to push its EOF and the stream to emit
\* 'end' unless it is closed or fails first, and a call whose await has
\* settled is resumed.
InitLive ==
    /\ streams \in {[[s \in StreamIds |-> NoStream] EXCEPT
                         ![1] = NewStream("transport", cs, d)] :
                      cs \in LiveChunkSeqs, d \in BOOLEAN}
    /\ calls = [c \in CallIds |-> NoCall]
    /\ payload = NoPayload
    /\ descs = [d \in DescIds |-> NoDesc]
    /\ owner = <<>>

NextLive ==
    \/ PushEof(1)
    \/ EmitEnd(1)
    \/ Close(1)
    \/ Fail(1)
    \/ \E body \in Bodies, size \in 0..MaxSize : ConsumeBodyStream(1, body, size)
    \/ ReadChunk(1)
    \/ LoopDone(1)
    \/ LoopThrows(1)

SpecLive ==
    /\ InitLive /\ [][NextLive]_vars
    /\ WF_vars(PushEof(1))
    /\ WF_vars(EmitEnd(1))
    /\ WF_vars(ReadChunk(1))
    /\ WF_vars(LoopDone(1))
    /\ WF_vars(LoopThrows(1))

----------------------------------------------------------------------------
(* Two consumeBodyStream calls at once, call c on stream c, their steps    *)
(* interleaved at the awaits. Both streams are Readables, with destroy().  *)

\* The chunks of the two streams: a one-byte Buffer or a one-character string.
PairChunks == {BufferChunk(<<65>>), StringChunk(<<233>>)}
PairChunkSeqs == SeqsUpTo(PairChunks, MaxChunks)

\* The limits of the two calls: none, or one that the second chunk exceeds.
PairSizes == {0, 1}

InitPair ==
    /\ streams \in {ss \in [StreamIds -> {NoStream} \cup
                                {NewStream("transport", cs, TRUE) :
                                     cs \in PairChunkSeqs}] :
                      \A s \in StreamIds : ss[s] = NoStream <=> s \notin CallIds}
    /\ calls = [c \in CallIds |-> NoCall]
    /\ payload = NoPayload
    /\ descs = [d \in DescIds |-> NoDesc]
    /\ owner = <<>>

NextPair ==
    \E c \in CallIds :
        \/ PushEof(c)
        \/ EmitEnd(c)
        \/ Close(c)
        \/ Fail(c)
        \/ \E size \in PairSizes : ConsumeBodyStream(c, c, size)
        \/ ReadChunk(c)
        \/ LoopDone(c)
        \/ LoopThrows(c)

SpecPair == InitPair /\ [][NextPair]_vars

----------------------------------------------------------------------------
(* getBodyStream called (up to twice) on one payload, the returned streams *)
(* read by the transport or collected by consumeBodyStream.                *)

Strings(n) == SeqsUpTo(Chars, n)
Buffers(n) == SeqsUpTo(InBytes, n)

\* The chunk sequences a live source stream may hold: one-byte Buffers.
SourceChunkSeqs == SeqsUpTo({BufferChunk(<<b>>) : b \in InBytes}, MaxChunks)

\* The names of a URLSearchParams payload: "", "A" and "e-acute".
ParamNames == SeqsUpTo(Chars, 1)

Payloads ==
    {Payload("null", <<>>), Payload("undefined", <<>>)}
    \cup {[Payload("URLSearchParams", <<>>) EXCEPT !.params = ps] :
              ps \in SeqsUpTo(ParamNames \X Strings(MaxValueLen), MaxParams)}
    \cup {[Payload("Blob", b) EXCEPT !.mime = m] :
              b \in Buffers(MaxBufLen), m \in {NullType, <<"text/plain">>}}
    \cup {Payload("Buffer", b) : b \in Buffers(MaxBufLen)}
    \cup {Payload("ArrayBuffer", b) : b \in Buffers(MaxBufLen)}
    \cup UNION {{[Payload("View", b) EXCEPT !.offset = o, !.length = n] :
                     o \in 0..Len(b), n \in 0..Len(b)} : b \in Buffers(MaxBufLen)}
    \cup {[Payload("Stream", <<>>) EXCEPT !.chunks = cs] : cs \in SourceChunkSeqs}
    \cup {[Payload("FormData", b) EXCEPT !.mime = <<"multipart/form-data">>,
                                         !.length = Len(b)] :
              b \in Buffers(MaxBufLen)}
    \cup {Payload("other", s) : s \in Strings(MaxStrLen)}

InitAdapt ==
    /\ payload \in {p \in Payloads : p.type = "View" => p.offset + p.length <= Len(p.data)}
    /\ streams = [s \in StreamIds |->
                    IF s = SourceId /\ payload.type = "Stream"
                    THEN NewStream("transport", payload.chunks, TRUE)
                    ELSE NoStream]
    /\ calls = [c \in CallIds |-> NoCall]
    /\ descs = [d \in DescIds |-> NoDesc]
    /\ owner = <<>>

NextAdapt ==
    \/ \E d \in DescIds : GetBodyStream(d)
    \/ \E s \in DescIds : Read(s)
    \/ Flow(SourceId)
    \/ OwnerRead(SourceId)
    \/ PushEof(SourceId)
    \/ \E s \in StreamIds : EmitEnd(s)
    \/ \E d \in DescIds, size \in {0, MaxSize} :
           descs[d].made /\ ConsumeBodyStream(1, descs[d].stream, size)
    \/ ReadChunk(1)
    \/ LoopDone(1)

SpecAdapt == InitAdapt /\ [][NextAdapt]_vars

----------------------------------------------------------------------------
(* Properties of consumeBodyStream.                                        *)

\* The stream call c reads.
StreamOf(c) == streams[calls[c].body]
\* Call c was made with a stream and has ended.
Finished(c) == calls[c].body \in StreamIds /\ calls[c].pc \in Outcomes
\* Call c returned a Buffer read from a stream.
Succeeded(c) == calls[c].body \in StreamIds /\ calls[c].pc = "Returned"
\* The stream ran to its natural end.
CompletedNormally(stream) == stream.readableEnded /\ ~stream.destroyed
\* All chunks are Buffers, or all are strings.
Homogeneous(cs) == \A i, j \in 1..Len(cs) : cs[i].str = cs[j].str

\* The other side closed the stream before its end.
ClosedEarly(stream) == stream.destroyed /\ stream.destroyArg.kind = "none"

\* C1: with a limit N > 0, a call whose stream (not cut short by the other side)
\* produced more than N bytes fails with the size-limit error carrying N, and
\* returns no buffer.
C1_SizeLimitFails ==
    \A c \in CallIds :
        (/\ Finished(c)
         /\ calls[c].size > 0
         /\ ~ClosedEarly(StreamOf(c))
         /\ TotalBytes(StreamOf(c).delivered) > calls[c].size)
        => /\ calls[c].pc = "LimitExceeded"
           /\ calls[c].error.kind = "size"
           /\ calls[c].error.limit = calls[c].size

\* C2, as claimed: with size 0, a call on any stream that completes normally
\* returns the bytes of all chunks the stream produced, in arrival order.
C2_AnyStreamConcatenated ==
    \A c \in CallIds :
        (Finished(c) /\ calls[c].size = 0 /\ CompletedNormally(StreamOf(c)))
        => /\ calls[c].pc = "Returned"
           /\ calls[c].buffer = AllBytes(StreamOf(c).delivered)

\* C2, amended: with size 0, a call on a stream that completes normally and whose
\* chunks are all Buffers or all strings returns the bytes of all chunks the
\* stream produced, in arrival order.
C2_HomogeneousConcatenated ==
    \A c \in CallIds :
        (/\ Finished(c)
         /\ calls[c].size = 0
         /\ CompletedNormally(StreamOf(c))
         /\ Homogeneous(StreamOf(c).delivered))
        => /\ calls[c].pc = "Returned"
           /\ calls[c].buffer = AllBytes(StreamOf(c).delivered)

\* Two chunks with different bytes were concatenated by an unlimited call.
C2_Witness ==
    \E c \in CallIds :
        /\ Succeeded(c)
        /\ calls[c].size = 0
        /\ CompletedNormally(StreamOf(c))
        /\ Len(StreamOf(c).delivered) = 2
        /\ Homogeneous(StreamOf(c).delivered)
        /\ calls[c].buffer = <<65, 233>>

\* C3: a call that ends with the size-limit error has invoked destroy, when the
\* stream has it, with that very error and before throwing; when the stream has
\* no destroy, nothing was invoked and the call fails with the same error.
C3_DestroyWithSizeError ==
    \A c \in CallIds :
        calls[c].pc = "LimitExceeded"
        => /\ calls[c].error = [kind |-> "size", limit |-> calls[c].size,
                                cause |-> "", by |-> c]
           /\ IF StreamOf(c).hasDestroy
              THEN /\ StreamOf(c).destroyArg = calls[c].error
                   /\ StreamOf(c).destroyed
                   /\ calls[c].events = <<"destroy", "throw">>
              ELSE /\ StreamOf(c).destroyArg.kind = "none"
                   /\ calls[c].events = <<"throw">>

\* The limit was exceeded on a stream that has destroy.
C3_Witness ==
    \E c \in CallIds :
        /\ calls[c].pc = "LimitExceeded"
        /\ StreamOf(c).hasDestroy
        /\ StreamOf(c).destroyArg.kind = "size"
        /\ StreamOf(c).destroyArg.limit = 2

\* C4: when the loop has finished and one of readableEnded and
\* _readableState.ended says the stream has not ended, the call fails with the
\* premature-close error; a buffer is returned only when both say it ended.
C4_PrematureClose ==
    \A c \in CallIds :
        (Finished(c) /\ calls[c].pc # "LimitExceeded")
        => /\ (~StreamOf(c).readableEnded \/ ~StreamOf(c).ended)
                  => (calls[c].pc = "PrematureClose" /\ calls[c].error.kind = "premature")
           /\ calls[c].pc = "Returned"
                  => (StreamOf(c).readableEnded /\ StreamOf(c).ended)

\* The stream was closed after its EOF and before 'end': the indicators disagree.
C4_Witness ==
    \E c \in CallIds :
        /\ calls[c].pc = "PrematureClose"
        /\ StreamOf(c).ended
        /\ ~StreamOf(c).readableEnded
        /\ calls[c].chunks # <<>>

\* C6: after a successful call the buffer is as long as the lengths of the chunks
\* consumed together, the stream has ended, and every chunk of the stream was
\* read exactly once.
C6_LengthIsSumOfChunkLengths ==
    \A c \in CallIds :
        Succeeded(c)
        => /\ Len(calls[c].buffer) = TotalLength(calls[c].chunks)
           /\ StreamOf(c).readableEnded /\ StreamOf(c).ended
           /\ StreamOf(c).pending = <<>>
           /\ StreamOf(c).delivered = calls[c].chunks

\* C10: a call with a null body returns an empty buffer whatever the limit,
\* without an error, without suspending and without a chunk read from any stream.
C10_NullBodyEmptyBuffer ==
    \A c \in CallIds :
        (calls[c].pc # "Idle" /\ calls[c].body = Null)
        => /\ calls[c].pc = "Returned"
           /\ calls[c].buffer = <<>>
           /\ calls[c].error = NoError
           /\ calls[c].events = <<>>
           /\ calls[c].awaits = 0
           /\ calls[c].chunks = <<>>

\* A null body was consumed under a limit while a stream with chunks exists.
C10_Witness ==
    \E c \in CallIds :
        /\ calls[c].pc = "Returned"
        /\ calls[c].body = Null
        /\ calls[c].size = MaxSize
        /\ streams[1].pending # <<>>

----------------------------------------------------------------------------
(* Properties of getBodyStream and of the two functions together.          *)

\* The stream descriptor d holds.
StreamOfDesc(d) == streams[descs[d].stream]
\* Descriptor d was returned with a stream.
HasStream(d) == descs[d].made /\ descs[d].stream # Null
\* The stream of descriptor d was read to its end.
FullyRead(d) ==
    HasStream(d) /\ StreamOfDesc(d).readableEnded /\ StreamOfDesc(d).pending = <<>>
\* All bytes the stream of descriptor d has yielded and has yet to yield.
Yield(d) == AllBytes(StreamOfDesc(d).delivered \o StreamOfDesc(d).pending)

\* C5: a contentLength that is not null equals the number of bytes read from the
\* returned stream.
C5_ContentLengthIsByteCount ==
    \A d \in DescIds :
        (FullyRead(d) /\ descs[d].contentLength # NullLength)
        => descs[d].contentLength = TotalBytes(StreamOfDesc(d).delivered)

\* C7: for a stream payload the descriptor holds another stream, a null
\* contentType and a null contentLength, and once the returned stream was read
\* the source still has all of its chunks for its owner.
C7_SourceLeftUnconsumed ==
    \A d \in DescIds :
        (descs[d].made /\ payload.type = "Stream")
        => /\ descs[d].stream \notin {Null, SourceId}
           /\ descs[d].contentType = NullType
           /\ descs[d].contentLength = NullLength
           /\ StreamOfDesc(d).delivered # <<>>
                  => owner \o streams[SourceId].pending = payload.chunks

\* C8: for a Buffer payload b, contentLength is the length of b, and
\* consumeBodyStream with size 0, as the only reader of the returned stream,
\* returns b.
C8_BufferRoundTrip ==
    \A d \in DescIds :
        (descs[d].made /\ payload.type = "Buffer")
        => /\ descs[d].contentLength = Len(payload.data)
           /\ \A c \in CallIds :
                  (/\ Finished(c)
                   /\ calls[c].body = descs[d].stream
                   /\ calls[c].size = 0
                   /\ StreamOf(c).delivered = calls[c].chunks)
                  => /\ calls[c].pc = "Returned"
                     /\ calls[c].buffer = payload.data

\* A two-byte Buffer went through both functions.
C8_Witness ==
    \E d \in DescIds, c \in CallIds :
        /\ payload.type = "Buffer"
        /\ payload.data = <<65, 233>>
        /\ descs[d].made
        /\ descs[d].contentLength = 2
        /\ calls[c].body = descs[d].stream
        /\ calls[c].size = 0
        /\ calls[c].pc = "Returned"
        /\ calls[c].buffer = <<65, 233>>

\* C9: two calls of getBodyStream on the same byte payload return two different
\* streams, and however far each has been read, both yield (have yielded and
\* will yield) the same bytes: those of the payload.
C9_IndependentStreams ==
    \A d1, d2 \in DescIds :
        (/\ d1 # d2
         /\ HasStream(d1) /\ HasStream(d2)
         /\ payload.type \in {"Buffer", "ArrayBuffer", "Blob", "View"})
        => /\ descs[d1].stream # descs[d2].stream
           /\ Yield(d1) = Yield(d2)
           /\ payload.type # "View" => Yield(d1) = payload.data

\* One of the two streams of a Buffer was read to its end, the other not at all.
C9_Witness ==
    /\ payload.type = "Buffer"
    /\ payload.data = <<65, 233>>
    /\ FullyRead(1)
    /\ StreamOfDesc(1).delivered = <<[str |-> FALSE, data |-> <<65, 233>>]>>
    /\ HasStream(2)
    /\ StreamOfDesc(2).delivered = <<>>
    /\ StreamOfDesc(2).pending = <<[str |-> FALSE, data |-> <<65, 233>>]>>

\* What getBodyStream makes of a payload is a descriptor: bytes for a stream or
\* none, a content type or null, a length or null.
IsDescribed(r) ==
    /\ DOMAIN r = {"some", "bytes", "contentType", "contentLength"}
    /\ r.some \in BOOLEAN
    /\ r.bytes \in Seq(0..255)
    /\ r.contentType \in Seq(STRING) /\ Len(r.contentType) <= 1
    /\ r.contentLength \in Nat \cup {NullLength}

\* C11: getBodyStream returns a descriptor for every payload (the if-chain
\* has an outcome for each, none of them an error), with no stream only for
\* null and undefined;
\* a payload of none of the recognised types gets the textual fallback: the
\* UTF-8 bytes of String(body), a null contentType and the string's length.
C11_AlwaysADescriptor ==
    \A d \in DescIds :
        /\ IsDescribed(Described(payload))
        /\ descs[d].made
           => /\ descs[d].stream \in StreamIds \cup {Null}
              /\ descs[d].stream = Null <=> payload.type \in {"null", "undefined"}
              /\ descs[d].contentLength \in Nat \cup {NullLength}
        /\ (descs[d].made /\ payload.type = "other")
           => /\ HasStream(d)
              /\ Yield(d) = BufferFromString(payload.data)
              /\ descs[d].contentType = NullType
              /\ descs[d].contentLength = StringLength(payload.data)

\* The string "A e-acute", of no recognised type, was described and its stream
\* read to the end.
C11_Witness ==
    \E d \in DescIds :
        /\ payload.type = "other"
        /\ payload.data = <<65, 233>>
        /\ FullyRead(d)
        /\ AllBytes(StreamOfDesc(d).delivered) = <<65, 195, 169>>
        /\ descs[d].contentLength = 2

\* C12: for a typed view with byte offset o and byte length n, the returned
\* stream yields the n bytes at positions o .. o+n-1 of the underlying buffer
\* (counted from 0) and no others, and contentLength is n.
C12_ViewWindow ==
    \A d \in DescIds :
        (descs[d].made /\ payload.type = "View")
        => /\ HasStream(d)
           /\ Yield(d) = [i \in 1..payload.length |->
                             payload.data[payload.offset + i]]
           /\ descs[d].contentLength = payload.length

\* A view of the second byte alone of a two-byte buffer was described and read.
C12_Witness ==
    \E d \in DescIds :
        /\ payload.type = "View"
        /\ payload.data = <<65, 233>>
        /\ payload.offset = 1
        /\ payload.length = 1
        /\ FullyRead(d)
        /\ AllBytes(StreamOfDesc(d).delivered) = <<233>>
        /\ descs[d].contentLength = 1

----------------------------------------------------------------------------
(* The life of a consumeBodyStream call.                                   *)

\* The error kind each outcome goes with.
KindOf(pc) ==
    CASE pc = "LimitExceeded" -> "size"
      [] pc = "PrematureClose" -> "premature"
      [] pc = "BufferConstructionError" -> "buffer"
      [] pc = "StreamError" -> "stream"
      [] OTHER -> "none"

\* A call is before its start, in its loop, or at one outcome of outs; an error
\* outcome has its error and no buffer, a return has no error.
OneOutcome(outs) ==
    \A c \in CallIds :
        /\ calls[c].pc \in {"Idle", "Reading"} \cup outs
        /\ calls[c].error.kind = KindOf(calls[c].pc)
        /\ calls[c].pc # "Returned" => calls[c].buffer = <<>>
        /\ calls[c].pc = "Reading" => calls[c].body \in StreamIds

\* One step in the life of every call: Idle to Reading (or, with no stream,
\* straight to the empty buffer), Reading on to Reading or to an outcome of
\* outs; from an outcome nothing moves, neither the call nor what was read from
\* its stream.
LifeStep(outs) ==
    \A c \in CallIds :
        LET from == calls[c].pc
            to == calls'[c].pc
        IN  \/ from = "Idle" /\ to = "Idle"
            \/ from = "Idle" /\ to = "Reading" /\ calls'[c].body \in StreamIds
            \/ from = "Idle" /\ to = "Returned" /\ calls'[c].body \notin StreamIds
            \/ from = "Reading" /\ to \in {"Reading"} \cup outs
            \/ /\ from \notin {"Idle", "Reading"}
               /\ calls'[c] = calls[c]
               /\ calls[c].body \in StreamIds
                  => streams'[calls[c].body].delivered = StreamOf(c).delivered

\* Every call in its loop comes to an outcome of outs.
Terminates(outs) ==
    \A c \in CallIds : calls[c].pc = "Reading" ~> calls[c].pc \in outs

\* C14 as stated: a call on a finite stream ends in exactly one of: buffer
\* returned, size-limit error, premature-close error, buffer-construction
\* error; it goes Idle, Reading, outcome; an error outcome is final and nothing
\* is read after it.
C14_FourOutcomes ==
    /\ []OneOutcome(Outcomes)
    /\ [][LifeStep(Outcomes)]_vars
    /\ Terminates(Outcomes)

\* C14, amended: the same with a fifth outcome, the stream's own error, which
\* the call passes on when the stream fails while it is read.
C14_Lifecycle ==
    /\ []OneOutcome(AllOutcomes)
    /\ [][LifeStep(AllOutcomes)]_vars
    /\ Terminates(AllOutcomes)

\* A call went over its limit on a stream without destroy() that still holds a
\* chunk: the chunk stays unread.
C14_Witness ==
    /\ calls[1].pc = "LimitExceeded"
    /\ ~StreamOf(1).hasDestroy
    /\ StreamOf(1).pending # <<>>
    /\ Len(StreamOf(1).delivered) = 1

\* The chunks cannot be made into one Buffer: the first is a Buffer and a string
\* is among them (Buffer.concat takes only Buffers).
Unjoinable(cs) == cs # <<>> /\ ~cs[1].str /\ \E i \in 1..Len(cs) : cs[i].str

\* C15: a call is at the buffer-construction error only after its loop ended
\* with every chunk of the stream accumulated and both completion indicators
\* set; and a call whose loop ended so with chunks that cannot be concatenated
\* fails with that error, carrying the message of the failure, and returns no
\* buffer.
C15_BufferConstructionError ==
    \A c \in CallIds :
        /\ calls[c].pc = "BufferConstructionError"
           => /\ StreamOf(c).readableEnded
              /\ StreamOf(c).ended
              /\ StreamOf(c).pending = <<>>
              /\ calls[c].chunks = StreamOf(c).delivered
              /\ Unjoinable(calls[c].chunks)
        /\ (/\ Finished(c)
            /\ calls[c].pc # "LimitExceeded"
            /\ ~NotEnded(StreamOf(c))
            /\ Unjoinable(calls[c].chunks))
           => /\ calls[c].pc = "BufferConstructionError"
              /\ calls[c].error = [kind |-> "buffer", limit |-> 0,
                                   cause |-> "ERR_INVALID_ARG_TYPE", by |-> c]
              /\ calls[c].buffer = <<>>

\* A stream of a Buffer and then a string ended, and the call failed with the
\* buffer-construction error.
C15_Witness ==
    /\ calls[1].pc = "BufferConstructionError"
    /\ Len(calls[1].chunks) = 2
    /\ ~calls[1].chunks[1].str
    /\ calls[1].chunks[2].str
    /\ calls[1].error.cause = "ERR_INVALID_ARG_TYPE"
    /\ StreamOf(1).readableEnded

----------------------------------------------------------------------------
(* The limit of a consumeBodyStream call.                                  *)

\* cs without its last element.
Front(cs) == SubSeq(cs, 1, Len(cs) - 1)

\* Call c failed on its limit: the chunk that went over it is the last one the
\* stream delivered, it is not among the accumulated chunks, and everything
\* before it is, and stays within the limit.
StoppedAtTrigger(c) ==
    calls[c].pc = "LimitExceeded"
    => /\ StreamOf(c).delivered # <<>>
       /\ calls[c].chunks = Front(StreamOf(c).delivered)
       /\ TotalLength(calls[c].chunks) <= calls[c].size
       /\ TotalLength(StreamOf(c).delivered) > calls[c].size

\* After call c failed on its limit nothing more is read from its stream and
\* nothing more is accumulated.
NothingReadAfterLimit(c) ==
    calls[c].pc = "LimitExceeded"
    => /\ streams'[calls[c].body].delivered = StreamOf(c).delivered
       /\ streams'[calls[c].body].pending = StreamOf(c).pending
       /\ calls'[c] = calls[c]

\* C17: once a chunk would take the running total over a limit that is set,
\* the call obtains no further chunk: that chunk is not added to the
\* accumulated chunks and the chunks after it are never read.
C17_StopsAtTrigger ==
    /\ [](\A c \in CallIds : StoppedAtTrigger(c))
    /\ [][\A c \in CallIds : NothingReadAfterLimit(c)]_vars

\* With limit 2, the second chunk went over and was not accumulated; the
\* stream has no destroy().
C17_Witness ==
    /\ calls[1].pc = "LimitExceeded"
    /\ calls[1].size = 2
    /\ Len(calls[1].chunks) = 1
    /\ Len(StreamOf(1).delivered) = 2
    /\ ~StreamOf(1).hasDestroy

\* C18: at every point of a call the running total is the sum of the lengths
\* of the chunks accumulated so far, and with a limit set it is never above
\* the limit.
C18_RunningTotal ==
    \A c \in CallIds :
        /\ calls[c].bytes = TotalLength(calls[c].chunks)
        /\ calls[c].size > 0 => calls[c].bytes <= calls[c].size

\* In the loop, a chunk of two bytes in, the total at the limit of 2 and more
\* to come.
C18_Witness ==
    /\ calls[1].pc = "Reading"
    /\ calls[1].size = 2
    /\ Len(calls[1].chunks) = 1
    /\ calls[1].bytes = 2
    /\ CanYield(StreamOf(1))

\* Call c invoked destroy() only if it ended on its limit.
DestroyOnlyForLimit(c) ==
    (calls[c].body \in StreamIds /\ calls[c].pc # "LimitExceeded")
    => /\ \A i \in 1..Len(calls[c].events) : calls[c].events[i] # "destroy"
       /\ StreamOf(c).destroyArg = NoError

\* The stream of call c ran to its end and its chunks total exactly the limit.
ExactlyAtLimit(c) ==
    /\ Finished(c)
    /\ calls[c].size > 0
    /\ CompletedNormally(StreamOf(c))
    /\ \/ TotalLength(StreamOf(c).delivered) = calls[c].size
       \/ TotalBytes(StreamOf(c).delivered) = calls[c].size

\* C19 as stated: a stream whose chunks total exactly the limit is collected,
\* and a call that does not end in the size-limit error never invokes destroy().
C19_InclusiveLimit ==
    \A c \in CallIds :
        /\ ExactlyAtLimit(c) => calls[c].pc = "Returned"
        /\ DestroyOnlyForLimit(c)

\* C19, amended: the same for a stream whose chunks are all Buffers or all
\* strings.
C19_InclusiveLimitHomogeneous ==
    \A c \in CallIds :
        /\ (ExactlyAtLimit(c) /\ Homogeneous(StreamOf(c).delivered))
           => calls[c].pc = "Returned"
        /\ DestroyOnlyForLimit(c)

\* Two Buffer chunks of three bytes in all were collected under a limit of 3.
C19_Witness ==
    /\ calls[1].pc = "Returned"
    /\ calls[1].size = 3
    /\ Len(calls[1].chunks) = 2
    /\ ~calls[1].chunks[1].str
    /\ Len(calls[1].buffer) = 3
    /\ CompletedNormally(StreamOf(1))
    /\ StreamOf(1).destroyArg = NoError

----------------------------------------------------------------------------
(* Calls side by side.                                                     *)

\* What a call ends with.
Result(pc, buffer, error) == [pc |-> pc, buffer |-> buffer, error |-> error]

\* A chunk of cs takes the total of cs up to it over the limit size.
OverLimit(size, cs) ==
    size # 0 /\ \E i \in 1..Len(cs) : TotalLength(SubSeq(cs, 1, i)) > size

\* What call c ends with when it is the only call there is: it depends on its
\* limit, on the chunks its stream delivered and on how the stream ended, and
\* on nothing else.
Alone(c, size, stream) ==
    LET cs == stream.delivered
        built == ChunksToBuffer(cs, TotalLength(cs))
    IN  IF OverLimit(size, cs)
        THEN Result("LimitExceeded", <<>>,
                    [kind |-> "size", limit |-> size, cause |-> "", by |-> c])
        ELSE IF stream.errored
        THEN Result("StreamError", <<>>, StreamFailure)
        ELSE IF ~stream.readableEnded \/ ~stream.ended
        THEN Result("PrematureClose", <<>>,
                    [kind |-> "premature", limit |-> 0, cause |-> "", by |-> c])
        ELSE IF built.ok
        THEN Result("Returned", built.data, NoError)
        ELSE Result("BufferConstructionError", <<>>,
                    [kind |-> "buffer", limit |-> 0,
                     cause |-> built.message, by |-> c])

\* Every call that ended did so as it would have alone, and a stream was
\* destroyed with an error only by the call that reads it.
SameAsAlone ==
    \A c \in CallIds :
        /\ calls[c].pc \in AllOutcomes
           => Result(calls[c].pc, calls[c].buffer, calls[c].error)
                  = Alone(c, calls[c].size, StreamOf(c))
        /\ calls[c].body \in StreamIds
           => /\ StreamOf(c).destroyArg.by \in {0, c}
              /\ StreamOf(c).destroyArg.by = c => calls[c].pc = "LimitExceeded"

\* A step of call c changes no other call and no stream but its own.
OwnStateOnly ==
    \A c \in CallIds :
        calls'[c] # calls[c]
        => /\ \A o \in CallIds \ {c} : calls'[o] = calls[o]
           /\ \A s \in StreamIds \ {calls'[c].body} : streams'[s] = streams[s]

\* C16: calls over distinct streams, interleaved at the chunk boundaries, do
\* not interfere: each ends as it would alone on its stream with its limit,
\* and a limit failure of one neither destroys nor fails the other's stream.
C16_NoInterference ==
    /\ []SameAsAlone
    /\ [][OwnStateOnly]_vars

\* Call 1 failed on its limit and destroyed its stream while call 2, one chunk
\* in, went on to return both chunks of its own stream.
C16_Witness ==
    /\ calls[1].pc = "LimitExceeded"
    /\ streams[1].destroyed
    /\ calls[1].awaits = 2
    /\ calls[2].pc = "Returned"
    /\ calls[2].size = 0
    /\ Len(calls[2].chunks) = 2
    /\ ~streams[2].destroyed

====
